---------------------------- MODULE Spec2Model ----------------------------
(***************************************************************************)
(* Model of HistoryView::SetupSwipeHandler                                 *)
(* (Telegram/SourceFiles/history/history_view_swipe.cpp).                   *)
(*                                                                         *)
(* One step of the model is one call the Qt event loop makes into the      *)
(* handler: the event filter for one event, the scrolls() subscriber, one  *)
(* tick of one of the two animations, or one postponed call.  Everything   *)
(* runs on the single GUI thread, so every such call is atomic.            *)
(*                                                                         *)
(* Coordinates are integers (device independent pixels).  A ratio          *)
(* (float64 in the code) is kept as the numerator of a fraction whose      *)
(* denominator is RatioDen = threshold * Sub, so that delta.x / threshold  *)
(* and every value an animation takes on its Sub progress steps are exact. *)
(***************************************************************************)
EXTENDS Integers, Sequences, FiniteSets, TLC

VARIABLES
    state,      \* struct State (lines 31-45), without filter and lifetime
    scroll,     \* the scroll collaborator: disableScroll flag, WA_AcceptTouchEvents
    postponed,  \* calls queued by Ui::PostponeCall, not yet run
    isMac,      \* Platform::IsMac(), fixed for a build
    obs         \* observer of the notifications made so far (see Observe)

vars == <<state, scroll, postponed, isMac, obs>>

-----------------------------------------------------------------------------
(* Bounds of the model *)

\* progress steps of an animation (a tick lands on step 1..Sub; Sub is the end)
Sub == 2
\* largest |delta.x|, |delta.y| a wheel gesture accumulates
MaxDelta == 80
\* largest number of touch points in one touch event
MaxTouches == 3

(* Program constants *)

kThresholdWidth == 50
kOrientationThreshold == 1
kResetReachedOnNum == 95
kResetReachedOnDen == 100
kMaxRatioNum == 3
kMaxRatioDen == 2
kStartDragDistance == 10

\* style::ConvertFloatScale(kThresholdWidth) at 100% interface scale
threshold == kThresholdWidth

\* denominator of every ratio of the model
RatioDen == threshold * Sub

-----------------------------------------------------------------------------
(* Values *)

None == "None"
Horizontal == "Horizontal"
Vertical == "Vertical"

Orientations == {None, Horizontal, Vertical}

NoCallback == "none"

\* where a touch point may be
Positions == { <<60, 10>>, <<59, 10>>, <<12, 10>>, <<5, 10>>, <<60, 12>> }

\* m->pos().y() of a mouse move
MouseYs == {10, 40}

\* widget->mapFromGlobal(QCursor::pos()).y() when a gesture is seeded
CursorTops == {10}

\* what generateFinishByTop may return
FinishResults ==
    { [msgBareId |-> 7, callback |-> "A"],
      [msgBareId |-> 0, callback |-> NoCallback] }

\* Ui::ScrollDelta(w) of a wheel event
WheelDeltas == { <<0, 0>>, <<-40, 0>>, <<40, 0>>, <<0, -80>> }

WheelPhases ==
    {"NoScrollPhase", "ScrollBegin", "ScrollUpdate", "ScrollEnd", "ScrollMomentum"}

TouchTypes == {"TouchBegin", "TouchUpdate", "TouchEnd", "TouchCancel"}

Abs(x) == IF x < 0 THEN -x ELSE x

Sgn(x) == IF x < 0 THEN -1 ELSE 1

\* base::SafeRound(n / d) for d > 0: nearest integer, halves away from zero
SafeRound(n, d) == Sgn(n) * ((2 * Abs(n) + d) \div (2 * d))

\* std::clamp
Clamp(v, lo, hi) == IF v < lo THEN lo ELSE IF v > hi THEN hi ELSE v

\* delta.x() / threshold, as a numerator over RatioDen
Ratio(dx) == dx * Sub

\* the literal 1.5 of updateRatio as a numerator over RatioDen
MaxShownRatio == (kMaxRatioNum * RatioDen) \div kMaxRatioDen

-----------------------------------------------------------------------------
(* Ui::Animations::Simple, as far as the handler uses it *)

\* a stopped animation
StoppedReach == [running |-> FALSE, p |-> 0]
StoppedEnd == [running |-> FALSE, from |-> 0, p |-> 0]

\* animationReach.start(animationReachCallback, 0., 1., kBounceDuration)
StartReach == [running |-> TRUE, p |-> 0]

\* mutant: the end animation starts from the ratio as it is shown
StartEndClamped(ratio) ==
    [running |-> TRUE, from |-> IF ratio < 0 THEN 0 ELSE ratio, p |-> 0]

\* animationEnd.start(updateRatio, ratio, 0., st::slideWrapDuration)
StartEnd(ratio) == [running |-> TRUE, from |-> ratio, p |-> 0]

\* mutant: the animation moves away from its end value
InterpolateAway(from, to, p) == from - ((to - from) * p) \div Sub

\* value of a linear animation from `from` to `to` at progress p / Sub
Interpolate(from, to, p) == from + ((to - from) * p) \div Sub

\* animationReach.value(0.), in units of 1 / Sub
ReachValue(a) == IF a.running THEN a.p ELSE 0

-----------------------------------------------------------------------------
(* The lambdas of SetupSwipeHandler.  Each takes and returns a "world":    *)
(*   st  the State,  sc  the scroll collaborator,  pq  the postponed calls, *)
(*   fx  the calls made so far by the current step.                         *)

NoEffects(ev) ==
    [ ev         |-> ev,     \* the event being handled
      end        |-> 0,      \* processEnd calls
      fed        |-> 0,      \* updateWith calls
      sched      |-> 0,      \* Ui::PostponeCall calls
      ran        |-> 0,      \* completion actions executed
      upd        |-> <<>>,   \* update notifications, in order
      reachStart |-> 0,      \* animationReach.start calls
      endStart   |-> 0,      \* animationEnd.start calls
      haptic     |-> 0,      \* base::Platform::Haptic calls
      resolver   |-> 0,      \* generateFinishByTop calls
      orient     |-> 0 ]     \* setOrientation calls (disableScroll + setAttribute)

World(ev) == [st |-> state, sc |-> scroll, pq |-> postponed, fx |-> NoEffects(ev)]

\* mutant: the translation is computed from the ratio as given
UpdateDataRawTranslation(w, ratio) ==
    [ ratio       |-> Clamp(ratio, 0, MaxShownRatio),
      reachRatio  |-> ReachValue(w.st.animationReach),
      translation |-> SafeRound(-ratio * threshold, RatioDen),
      msgBareId   |-> w.st.finishByTopData.msgBareId,
      cursorTop   |-> w.st.cursorTop ]

\* the ChatPaintGestureHorizontalData updateRatio builds
UpdateData(w, ratio) ==
    [ ratio       |-> Clamp(ratio, 0, MaxShownRatio),
      reachRatio  |-> ReachValue(w.st.animationReach),
      translation |-> SafeRound(-Clamp(ratio, 0, MaxShownRatio) * threshold, RatioDen),
      msgBareId   |-> w.st.finishByTopData.msgBareId,
      cursorTop   |-> w.st.cursorTop ]

updateRatio(w, ratio) ==
    [w EXCEPT !.fx.upd = Append(@, UpdateData(w, ratio))]

\* mutant: the scroll collaborator is not told
setOrientationKeepScroll(w, o) ==
    [w EXCEPT !.st.orientation = o,
              !.fx.orient = @ + 1]

setOrientation(w, o) ==
    [w EXCEPT !.st.orientation = o,
              !.sc = [acceptTouch |-> ~(o = Horizontal), disabled |-> (o = Horizontal)],
              !.fx.orient = @ + 1]

\* mutant: the ratio is not compared with 1
ShouldFinishAnyRatio(ratio, callback) == callback # NoCallback

\* (ratio >= 1) && state->finishByTopData.callback
ShouldFinish(ratio, callback) == (ratio >= RatioDen) /\ (callback # NoCallback)

\* mutant: ending a horizontal swipe neither queues the action nor animates
EndHorizontalQuiet(w, ratio) == w

\* mutant: the reach animation is left running
EndHorizontalKeepsReach(w, ratio) ==
    LET w1 == IF ShouldFinish(ratio, w.st.finishByTopData.callback)
              THEN [w EXCEPT !.pq = Append(@, w.st.finishByTopData.callback),
                             !.fx.sched = @ + 1]
              ELSE w
    IN  [w1 EXCEPT !.st.animationEnd = StartEnd(ratio),
                   !.fx.endStart = @ + 1]

\* the body of `if (state->orientation == Qt::Horizontal)` in processEnd
EndHorizontal(w, ratio) ==
    LET w1 == IF ShouldFinish(ratio, w.st.finishByTopData.callback)
              THEN [w EXCEPT !.pq = Append(@, w.st.finishByTopData.callback),
                             !.fx.sched = @ + 1]
              ELSE w
    IN  [w1 EXCEPT !.st.animationReach = StoppedReach,
                   !.st.animationEnd = StartEnd(ratio),
                   !.fx.endStart = @ + 1]

\* mutant: the delta handed to processEnd is not used
processEndLiveDelta(w, hasDelta, delta) ==
    LET w1 == IF w.st.orientation = Horizontal
              THEN EndHorizontal(w, Ratio(w.st.delta[1]))
              ELSE w
        w2 == setOrientation(w1, None)
    IN  [w2 EXCEPT !.st.started = FALSE,
                   !.st.reached = FALSE,
                   !.fx.end = @ + 1]

\* mutant: started is cleared but the orientation is left as it is
processEndKeepsOrientation(w, hasDelta, delta) ==
    LET w1 == IF w.st.orientation = Horizontal
              THEN EndHorizontal(w, Ratio(IF hasDelta THEN delta[1] ELSE w.st.delta[1]))
              ELSE w
    IN  [w1 EXCEPT !.st.started = FALSE,
                   !.st.reached = FALSE,
                   !.fx.end = @ + 1]

\* processEnd(delta): hasDelta says whether the optional holds a value
processEnd(w, hasDelta, delta) ==
    LET w1 == IF w.st.orientation = Horizontal
              THEN EndHorizontal(w, Ratio(IF hasDelta THEN delta[1] ELSE w.st.delta[1]))
              ELSE w
        w2 == setOrientation(w1, None)
    IN  [w2 EXCEPT !.st.started = FALSE,
                   !.st.reached = FALSE,
                   !.fx.end = @ + 1]

\* animationReachCallback
animationReachCallback(w) == updateRatio(w, Ratio(w.st.delta[1]))

\* mutant: every update seeds the gesture again
IsNewGestureAlways(st, touch) == TRUE

\* !state->started || state->touch != args.touch
IsNewGesture(st, touch) == (~st.started) \/ (st.touch # touch)

\* mutant: the comparisons include the threshold itself
DecideOrientationInclusive(diffXtoY) ==
    IF diffXtoY >= kOrientationThreshold THEN Horizontal
    ELSE IF diffXtoY <= -kOrientationThreshold THEN Vertical
    ELSE None

\* the three-way decision on diffXtoY (lines 114-120)
DecideOrientation(diffXtoY) ==
    IF diffXtoY > kOrientationThreshold THEN Horizontal
    ELSE IF diffXtoY < -kOrientationThreshold THEN Vertical
    ELSE None

\* mutant: the reached flag does not guard the start
ReachNowEverySample(reached, ratio) == ratio >= RatioDen

\* !state->reached && ratio >= 1.
ReachNow(reached, ratio) == (~reached) /\ (ratio >= RatioDen)

\* mutant: reached is reset as soon as the ratio is below 1
ReachResetBelowOne(reached, ratio) == reached /\ (ratio < RatioDen)

\* state->reached && ratio < kResetReachedOn
ReachReset(reached, ratio) ==
    reached /\ (ratio * kResetReachedOnDen < kResetReachedOnNum * RatioDen)

\* mutant: a gesture without a completion action is not forced Vertical
SeedGestureNotForced(w, args, cursor, finish) ==
    [w EXCEPT !.st.started = TRUE,
              !.st.touch = args.touch,
              !.st.startAt = args.position,
              !.st.delta = <<0, 0>>,
              !.st.cursorTop = cursor,
              !.st.finishByTopData = finish,
              !.fx.resolver = @ + 1]

\* mutant: seeding a gesture clears the orientation first
SeedGestureReset(w, args, cursor, finish) ==
    LET w1 == [w EXCEPT !.st.started = TRUE,
                        !.st.touch = args.touch,
                        !.st.startAt = args.position,
                        !.st.delta = <<0, 0>>,
                        !.st.cursorTop = cursor,
                        !.st.finishByTopData = finish,
                        !.fx.resolver = @ + 1]
    IN  setOrientation(w1, IF finish.callback = NoCallback THEN Vertical ELSE None)

\* first branch of updateWith: a new gesture is seeded
\*   cursor  widget->mapFromGlobal(QCursor::pos()).y()
\*   finish  what generateFinishByTop(cursorTop) returns
SeedGesture(w, args, cursor, finish) ==
    LET w1 == [w EXCEPT !.st.started = TRUE,
                        !.st.touch = args.touch,
                        !.st.startAt = args.position,
                        !.st.delta = <<0, 0>>,
                        !.st.cursorTop = cursor,
                        !.st.finishByTopData = finish,
                        !.fx.resolver = @ + 1]
    IN  IF finish.callback = NoCallback THEN setOrientation(w1, Vertical) ELSE w1

\* mutant: the sample that decides the orientation is shown as well
TrackUndeterminedShown(w, args) ==
    updateRatio(setOrientation([w EXCEPT !.st.delta = args.delta],
                               DecideOrientation(Abs(args.delta[1]) - Abs(args.delta[2]))),
                Ratio(args.delta[1]))

\* mutant: an undecided sample does not touch the scroll collaborator
TrackUndeterminedSilent(w, args) ==
    LET o == DecideOrientation(Abs(args.delta[1]) - Abs(args.delta[2]))
        w1 == [w EXCEPT !.st.delta = args.delta]
    IN  IF o = None THEN w1 ELSE setOrientation(w1, o)

\* second branch: orientation not decided yet
TrackUndetermined(w, args) ==
    setOrientation([w EXCEPT !.st.delta = args.delta],
                   DecideOrientation(Abs(args.delta[1]) - Abs(args.delta[2])))

\* third branch: a horizontal swipe in progress
TrackHorizontal(w, args) ==
    LET ratio == Ratio(args.delta[1])
        w1 == updateRatio([w EXCEPT !.st.delta = args.delta], ratio)
    IN  IF ReachNow(w.st.reached, ratio)
        THEN [w1 EXCEPT !.st.reached = TRUE,
                        !.st.animationReach = StartReach,
                        !.fx.reachStart = @ + 1,
                        !.fx.haptic = @ + 1]
        ELSE IF ReachReset(w.st.reached, ratio)
        THEN [w1 EXCEPT !.st.reached = FALSE]
        ELSE w1

updateWith(w0, args, cursor, finish) ==
    LET w == [w0 EXCEPT !.fx.fed = @ + 1]
    IN  IF IsNewGesture(w.st, args.touch) THEN SeedGesture(w, args, cursor, finish)
        ELSE IF w.st.orientation = None THEN TrackUndetermined(w, args)
        ELSE IF w.st.orientation = Horizontal THEN TrackHorizontal(w, args)
        ELSE w

-----------------------------------------------------------------------------
(* The event filter *)

\* a touch point: position and Qt::TouchPointReleased
TouchPoint == [pos : Positions, released : BOOLEAN]

\* a second or third point: its position is never read
OtherPoint(released) == [pos |-> <<60, 10>>, released |-> released]

\* t->touchPoints() of a TouchBegin or TouchUpdate
TouchLists ==
    UNION { { <<>> },
            { <<a>> : a \in TouchPoint },
            { <<[pos |-> <<5, 10>>, released |-> FALSE], OtherPoint(r)>> : r \in BOOLEAN },
            { [i \in 1..n |-> OtherPoint(FALSE)] : n \in 3..MaxTouches } }

\* t->touchPoints() of a TouchEnd or TouchCancel
EndLists == { <<>> } \cup { <<a>> : a \in {t \in TouchPoint : t.released} }

\* the lambda `released`
Released(touches, index) == (Len(touches) > index) /\ touches[index + 1].released

\* `cancel` of the touch cases
TouchCancels(type, touchscreen, touches) ==
    \/ Released(touches, 0)
    \/ Released(touches, 1)
    \/ (IF touchscreen
        THEN Len(touches) # 1
        ELSE (Len(touches) <= 0 \/ Len(touches) > 2))
    \/ type = "TouchEnd"
    \/ type = "TouchCancel"

\* mutant: a momentum phase is fed on as an update
WheelCancelsNoMomentum(buttons, phase) == buttons \/ (phase = "ScrollEnd")

\* `cancel` of the wheel case
WheelCancels(buttons, phase) ==
    buttons \/ (phase = "ScrollEnd") \/ (phase = "ScrollMomentum")

\* the early `break` of the touch cases
TouchIgnored(mac, touchscreen) == (~mac) /\ (~touchscreen)

\* the early `break` of the wheel case
WheelIgnored(mac, phase) == mac \/ (phase = "NoScrollPhase")

\* std::abs(m->pos().y() - state->cursorTop) > QApplication::startDragDistance()
DriftsAway(y, cursorTop) == Abs(y - cursorTop) > kStartDragDistance

Sub2(a, b) == <<a[1] - b[1], a[2] - b[2]>>

-----------------------------------------------------------------------------
(* The event filter and the other entry points, as functions of the event *)

\* mutant: processEnd runs on every pointer leave
LeaveWAlways == processEnd(World("Leave"), FALSE, <<0, 0>>)

\* case QEvent::Leave
LeaveW ==
    IF state.orientation # None
    THEN processEnd(World("Leave"), FALSE, <<0, 0>>)
    ELSE World("Leave")

\* case QEvent::MouseMove, with m->pos().y() = y
MouseMoveW(y) ==
    IF state.orientation # None /\ DriftsAway(y, state.cursorTop)
    THEN processEnd(World("MouseMove"), FALSE, <<0, 0>>)
    ELSE World("MouseMove")

\* case QEvent::TouchBegin, TouchUpdate, TouchEnd, TouchCancel
\*   cursor, finish: what QCursor::pos() and generateFinishByTop give if asked
TouchW(type, touchscreen, touches, cursor, finish) ==
    IF TouchIgnored(isMac, touchscreen)
    THEN World(type)
    ELSE IF TouchCancels(type, touchscreen, touches)
    THEN processEnd(World(type), touches # <<>>,
                    IF touches = <<>> THEN <<0, 0>>
                    ELSE Sub2(state.startAt, touches[1].pos))
    ELSE updateWith(World(type),
                    [ position |-> touches[1].pos,
                      delta    |-> Sub2(state.startAt, touches[1].pos),
                      touch    |-> TRUE ],
                    cursor, finish)

\* case QEvent::Wheel, with Ui::ScrollDelta(w) = scrollDelta
WheelW(phase, buttons, scrollDelta, cursor, finish) ==
    IF WheelIgnored(isMac, phase)
    THEN World(phase)
    ELSE IF WheelCancels(buttons, phase)
    THEN processEnd(World(phase), FALSE, <<0, 0>>)
    ELSE updateWith(World(phase),
                    [ position |-> <<0, 0>>,
                      delta    |-> Sub2(state.delta, scrollDelta),
                      touch    |-> FALSE ],
                    cursor, finish)

\* the subscriber of scroll->scrolls()
ScrollsW == processEnd(World("scrolls"), FALSE, <<0, 0>>)

\* a tick of animationReach at progress p / Sub; the last one ends the animation
ReachTickW(p) ==
    LET w0 == World("reachTick")
        w1 == animationReachCallback([w0 EXCEPT !.st.animationReach.p = p])
    IN  IF p = Sub THEN [w1 EXCEPT !.st.animationReach = StoppedReach] ELSE w1

\* a tick of animationEnd at progress p / Sub; the last one ends the animation
EndTickW(p) ==
    LET w0 == World("endTick")
        w1 == updateRatio([w0 EXCEPT !.st.animationEnd.p = p],
                          Interpolate(state.animationEnd.from, 0, p))
    IN  IF p = Sub THEN [w1 EXCEPT !.st.animationEnd = StoppedEnd] ELSE w1

\* the event loop runs the oldest call that Ui::PostponeCall queued
PostponedW == [World("postponed") EXCEPT !.pq = Tail(@), !.fx.ran = @ + 1]

-----------------------------------------------------------------------------
(* The inputs of the events *)

\* the cursor position and the resolver's answer are read only by an update
\* that seeds a new gesture
SeedInputs(touch) ==
    IF IsNewGesture(state, touch)
    THEN CursorTops \X FinishResults
    ELSE { <<state.cursorTop, state.finishByTopData>> }

\* the accumulated wheel delta stays within the bound of the model
InRange(d) == Abs(d[1]) <= MaxDelta /\ Abs(d[2]) <= MaxDelta

\* phase, buttons held, scroll delta: only a ScrollUpdate carries a delta
WheelInputs ==
    { i \in WheelPhases \X BOOLEAN \X WheelDeltas :
        /\ i[1] # "ScrollUpdate" => i[3] = <<0, 0>>
        /\ InRange(Sub2(state.delta, i[3])) }

\* type, from a touchscreen, touch points
TouchInputs ==
    ({"TouchBegin", "TouchUpdate"} \X BOOLEAN \X TouchLists)
        \cup ({"TouchEnd", "TouchCancel"} \X BOOLEAN \X EndLists)

ReachSteps == (state.animationReach.p + 1)..Sub

EndSteps == (state.animationEnd.p + 1)..Sub

-----------------------------------------------------------------------------
(* The observer: it only reads what the steps did *)

\* armed: the live ratio delta.x / threshold is at its gesture start, or has been
\* below kResetReachedOn since it last rose to >= 1
ObserveArmed(w) ==
    IF w.fx.end > 0 THEN TRUE
    ELSE IF w.fx.fed = 0 THEN obs.armed
    ELSE IF w.fx.resolver > 0 THEN TRUE
    ELSE IF state.orientation = Vertical THEN obs.armed
    ELSE IF obs.armed /\ Ratio(w.st.delta[1]) >= RatioDen THEN FALSE
    ELSE IF Ratio(w.st.delta[1]) * kResetReachedOnDen < kResetReachedOnNum * RatioDen THEN TRUE
    ELSE obs.armed

\* ratio of the last update notification that a sample or a reach tick of the
\* gesture in progress made; 0, the rest position, when it made none
ObserveShown(w) ==
    IF w.fx.end > 0 \/ w.fx.resolver > 0 THEN 0
    ELSE IF w.fx.upd # <<>> /\ w.fx.ev # "endTick" THEN w.fx.upd[Len(w.fx.upd)].ratio
    ELSE obs.shown

NoCap == 0 - 1

\* while an end animation runs that a ScrollMomentum wheel event started by
\* cancelling a wheel gesture: the ratio that gesture had last shown when the
\* event arrived; NoCap otherwise
ObserveCap(w) ==
    IF ~w.st.animationEnd.running THEN NoCap
    ELSE IF w.fx.endStart = 0 THEN obs.cap
    ELSE IF w.fx.ev = "ScrollMomentum" /\ state.started /\ ~state.touch THEN obs.shown
    ELSE NoCap

Observe(w) ==
    [ armed |-> ObserveArmed(w),
      shown |-> ObserveShown(w),
      cap   |-> ObserveCap(w) ]

\* the step ends: the world becomes the next state
Commit(w) ==
    /\ state' = w.st
    /\ scroll' = w.sc
    /\ postponed' = w.pq
    /\ obs' = Observe(w)
    /\ UNCHANGED isMac

-----------------------------------------------------------------------------
(* The state after SetupSwipeHandler returns *)

InitState ==
    [ animationReach  |-> StoppedReach,
      animationEnd    |-> StoppedEnd,
      finishByTopData |-> [msgBareId |-> 0, callback |-> NoCallback],
      orientation     |-> None,
      startAt         |-> <<0, 0>>,
      delta           |-> <<0, 0>>,
      cursorTop       |-> 0,
      started         |-> FALSE,
      reached         |-> FALSE,
      touch           |-> FALSE ]

Init ==
    /\ state = InitState
    /\ scroll \in [acceptTouch : BOOLEAN, disabled : {FALSE}]
    /\ postponed = <<>>
    /\ isMac \in BOOLEAN
    /\ obs = [armed |-> TRUE, shown |-> 0, cap |-> NoCap]

-----------------------------------------------------------------------------
(* One action per call into the handler.  A postponed call runs when the   *)
(* dispatch of the event that queued it has returned, before the event     *)
(* loop dispatches another event or timer tick.                            *)

Dispatch(w) == postponed = <<>> /\ Commit(w)

Leave == Dispatch(LeaveW)

MouseMove == \E y \in MouseYs : Dispatch(MouseMoveW(y))

TouchEvent ==
    \E i \in TouchInputs, s \in SeedInputs(TRUE) :
        Dispatch(TouchW(i[1], i[2], i[3], s[1], s[2]))

Wheel ==
    \E i \in WheelInputs, s \in SeedInputs(FALSE) :
        Dispatch(WheelW(i[1], i[2], i[3], s[1], s[2]))

Scrolls == Dispatch(ScrollsW)

ReachTick ==
    /\ state.animationReach.running
    /\ \E p \in ReachSteps : Dispatch(ReachTickW(p))

EndTick ==
    /\ state.animationEnd.running
    /\ \E p \in EndSteps : Dispatch(EndTickW(p))

RunPostponed ==
    /\ postponed # <<>>
    /\ Commit(PostponedW)

Next ==
    \/ Leave
    \/ MouseMove
    \/ TouchEvent
    \/ Wheel
    \/ Scrolls
    \/ ReachTick
    \/ EndTick
    \/ RunPostponed

Spec == Init /\ [][Next]_vars

-----------------------------------------------------------------------------
(* Shape of the state *)

TypeOK ==
    /\ state.orientation \in Orientations
    /\ state.started \in BOOLEAN
    /\ state.reached \in BOOLEAN
    /\ state.touch \in BOOLEAN
    /\ scroll \in [acceptTouch : BOOLEAN, disabled : BOOLEAN]
    /\ Len(postponed) <= 1

-----------------------------------------------------------------------------
(* Vocabulary of the properties *)

\* the delta.x a processEnd called for this touch event works with: that of
\* the first touch point if there is one, else the live one
FinalX(touches) ==
    IF touches = <<>> THEN state.delta[1] ELSE state.startAt[1] - touches[1].pos[1]

\* P(w, x) for the outcome w of every call the event loop can make next;
\* x is the delta.x a processEnd made by that call works with
ForEachStep(P(_, _)) ==
    IF postponed # <<>>
    THEN P(PostponedW, state.delta[1])
    ELSE /\ P(LeaveW, state.delta[1])
         /\ \A y \in MouseYs : P(MouseMoveW(y), state.delta[1])
         /\ \A i \in TouchInputs, s \in SeedInputs(TRUE) :
                P(TouchW(i[1], i[2], i[3], s[1], s[2]), FinalX(i[3]))
         /\ \A i \in WheelInputs, s \in SeedInputs(FALSE) :
                P(WheelW(i[1], i[2], i[3], s[1], s[2]), state.delta[1])
         /\ P(ScrollsW, state.delta[1])
         /\ state.animationReach.running =>
                \A p \in ReachSteps : P(ReachTickW(p), state.delta[1])
         /\ state.animationEnd.running =>
                \A p \in EndSteps : P(EndTickW(p), state.delta[1])

\* the Idle state of the recognizer
IsIdle(st) == st.orientation = None /\ ~st.started /\ ~st.reached

HasAction(st) == st.finishByTopData.callback # NoCallback

-----------------------------------------------------------------------------
(* C1: a processEnd that runs while orientation is Horizontal, with a final *)
(* ratio >= 1 and a completion action, queues that action exactly once and  *)
(* leaves the state Idle; the action is not executed by the call that ran   *)
(* processEnd but by a later call of the event loop; a processEnd that runs *)
(* before a new gesture has started queues nothing.                         *)

C1_Step(w, x) ==
    /\ (w.fx.end > 0 /\ state.orientation = Horizontal /\ x >= threshold
            /\ HasAction(state))
        => /\ w.fx.sched = 1
           /\ w.pq = Append(postponed, state.finishByTopData.callback)
           /\ w.fx.ran = 0
           /\ IsIdle(w.st)
    /\ (w.fx.end > 0 /\ ~state.started) => (w.fx.sched = 0 /\ w.pq = postponed)
    /\ w.fx.ran > 0 => (w.fx.end = 0 /\ w.fx.ran = 1 /\ postponed # <<>>)

C1_ScheduledOnceRunsLater ==
    /\ ForEachStep(C1_Step)
    /\ Len(postponed) <= 1
    /\ postponed # <<>> => IsIdle(state)

\* the action of a swipe released past the threshold waits in the queue
C1_Witness ==
    /\ postponed = <<"A">>
    /\ IsIdle(state)
    /\ state.animationEnd.running
    /\ state.animationEnd.from >= RatioDen

(* C2: a processEnd whose final ratio is < 1, or that finds no completion   *)
(* action, or that runs while orientation is not Horizontal, queues         *)
(* nothing; nothing but processEnd queues an action.                        *)

C2_Step(w, x) ==
    /\ w.fx.sched > 0
        => (w.fx.end > 0 /\ state.orientation = Horizontal /\ x >= threshold
                /\ HasAction(state))
    /\ w.pq # postponed => (w.fx.sched > 0 \/ w.fx.ran > 0)

C2_NothingScheduledOtherwise == ForEachStep(C2_Step)

\* a horizontal swipe released below the threshold: nothing is queued
C2_Witness ==
    /\ state.animationEnd.running
    /\ state.animationEnd.p = 0
    /\ state.animationEnd.from < RatioDen
    /\ state.animationEnd.from > 0
    /\ IsIdle(state)
    /\ postponed = <<>>

-----------------------------------------------------------------------------
(* C3 *)

\* what the cancel leaves behind
Restored(w) == IsIdle(w.st) /\ ~w.sc.disabled /\ w.sc.acceptTouch

Tracking == state.orientation \in {Horizontal, Vertical}

\* a touch event of the kinds the claim lists: end, cancel, a released point
\* among the first two, or a touch count out of range
TouchCancelKind(type, touchscreen, touches) ==
    \/ type \in {"TouchEnd", "TouchCancel"}
    \/ \E k \in 1..2 : k <= Len(touches) /\ touches[k].released
    \/ IF touchscreen THEN Len(touches) # 1 ELSE Len(touches) \notin {1, 2}

\* a wheel event of the kinds the claim lists
WheelCancelKind(phase, buttons) == buttons \/ phase \in {"ScrollEnd", "ScrollMomentum"}

\* gated: only the events the filter does not skip (touch: on macOS or from a
\* touchscreen; wheel: not on macOS and with a scroll phase)
C3_Body(gated) ==
    (postponed = <<>> /\ Tracking) =>
        /\ Restored(LeaveW)
        /\ \A y \in MouseYs :
               Abs(y - state.cursorTop) > kStartDragDistance => Restored(MouseMoveW(y))
        /\ \A i \in TouchInputs, s \in SeedInputs(TRUE) :
               (TouchCancelKind(i[1], i[2], i[3]) /\ (gated => (isMac \/ i[2])))
                   => Restored(TouchW(i[1], i[2], i[3], s[1], s[2]))
        /\ \A i \in WheelInputs, s \in SeedInputs(FALSE) :
               (WheelCancelKind(i[1], i[2])
                    /\ (gated => (~isMac /\ i[1] # "NoScrollPhase")))
                   => Restored(WheelW(i[1], i[2], i[3], s[1], s[2]))
        /\ Restored(ScrollsW)

(* C3, as claimed: every pointer leave, drifting mouse move, touch end,     *)
(* touch cancel, released point, bad touch count, wheel event with a button *)
(* held or phase ScrollEnd/ScrollMomentum, and scroll notification handled  *)
(* while orientation is Horizontal or Vertical leaves the state Idle with   *)
(* scrolling enabled and touch acceptance on.                               *)
C3_AsClaimed == C3_Body(FALSE)

(* C3, amended: the same, for the touch events that come from a touchscreen *)
(* or arrive on macOS and the wheel events that arrive off macOS with a     *)
(* phase other than NoScrollPhase; the filter skips the others.             *)
C3_CancelRestoresIdle == C3_Body(TRUE)

\* a horizontal swipe has just been cancelled
C3_Witness ==
    /\ IsIdle(state)
    /\ ~scroll.disabled
    /\ scroll.acceptTouch
    /\ state.animationEnd.running
    /\ state.animationEnd.p = 0
    /\ postponed = <<>>

-----------------------------------------------------------------------------
(* C4: an update of the gesture in progress (same source type) that finds   *)
(* orientation Undetermined sets it from diff = |delta.x| - |delta.y| of    *)
(* the update: Horizontal if diff > 1, Vertical if diff < -1, Undetermined  *)
(* otherwise.                                                               *)

Decided(w, d) ==
    LET diff == Abs(d[1]) - Abs(d[2])
    IN  /\ diff > 1 => w.st.orientation = Horizontal
        /\ diff < -1 => w.st.orientation = Vertical
        /\ (-1 <= diff /\ diff <= 1) => w.st.orientation = None

C4_OrientationByDiff ==
    (postponed = <<>> /\ state.started /\ state.orientation = None) =>
        /\ state.touch =>
               \A i \in TouchInputs :
                   LET w == TouchW(i[1], i[2], i[3], state.cursorTop, state.finishByTopData)
                   IN  w.fx.fed = 1 => Decided(w, Sub2(state.startAt, i[3][1].pos))
        /\ ~state.touch =>
               \A i \in WheelInputs :
                   LET w == WheelW(i[1], i[2], i[3], state.cursorTop, state.finishByTopData)
                   IN  w.fx.fed = 1 => Decided(w, Sub2(state.delta, i[3]))

\* a swipe to the other side was classified Horizontal
C4_Witness ==
    /\ state.started
    /\ state.orientation = Horizontal
    /\ state.delta[1] < -1
    /\ state.delta[2] = 0

-----------------------------------------------------------------------------
(* C5 *)

\* x / threshold >= 1
AtLeastOne(x) == x >= threshold

\* x / threshold >= 0.95
AtLeastFloor(x) == 100 * x >= 95 * threshold

\* a sample of the gesture in progress: an update that does not seed a gesture
IsSample(w) == w.fx.fed = 1 /\ w.fx.resolver = 0

(* C5, as claimed: the reach animation starts, with one haptic trigger,     *)
(* exactly on the samples on which the live ratio delta.x / threshold is    *)
(* >= 1 for the first time since the gesture started or since it was below  *)
(* 0.95.                                                                    *)
C5_StepAsClaimed(w, x) ==
    /\ w.fx.reachStart =
          (IF IsSample(w) /\ state.orientation # Vertical /\ obs.armed
                 /\ AtLeastOne(w.st.delta[1])
           THEN 1 ELSE 0)
    /\ w.fx.haptic = w.fx.reachStart

C5_AsClaimed == ForEachStep(C5_StepAsClaimed)

(* C5, amended: the reach animation starts, with one haptic trigger, exactly *)
(* on the samples that are processed while orientation is already           *)
(* Horizontal, have ratio >= 1 and find reached false; it sets reached, and *)
(* no later sample with ratio >= 0.95 starts it again.  The sample that     *)
(* decides the orientation starts nothing, whatever its ratio.              *)
C5_Step(w, x) ==
    /\ w.fx.reachStart =
          (IF IsSample(w) /\ state.orientation = Horizontal /\ ~state.reached
                 /\ AtLeastOne(w.st.delta[1])
           THEN 1 ELSE 0)
    /\ w.fx.haptic = w.fx.reachStart
    /\ w.fx.reachStart = 1 => (w.st.reached /\ w.st.animationReach = StartReach)
    /\ (IsSample(w) /\ state.reached /\ AtLeastFloor(w.st.delta[1]))
        => (w.fx.reachStart = 0 /\ w.st.reached)
    /\ (IsSample(w) /\ state.orientation = None) => w.fx.reachStart = 0

C5_ReachStartsOncePerCrossing == ForEachStep(C5_Step)

\* the threshold has just been crossed: the reach animation is at its start
C5_Witness ==
    /\ state.orientation = Horizontal
    /\ state.reached
    /\ state.animationReach = StartReach
    /\ state.startAt = <<60, 10>>
    /\ state.delta = <<55, 0>>

-----------------------------------------------------------------------------
(* C6: reached becomes true only on a sample with ratio >= 1 processed      *)
(* while orientation is Horizontal; it becomes false only by processEnd or  *)
(* on a sample with ratio < 0.95; a sample with 0.95 <= ratio < 1 leaves it *)
(* as it is.                                                                *)

C6_Step(w, x) ==
    /\ (~state.reached /\ w.st.reached)
        => (state.orientation = Horizontal /\ IsSample(w) /\ AtLeastOne(w.st.delta[1]))
    /\ (state.reached /\ ~w.st.reached)
        => (w.fx.end > 0 \/ (IsSample(w) /\ ~AtLeastFloor(w.st.delta[1])))
    /\ (IsSample(w) /\ state.orientation = Horizontal
            /\ AtLeastFloor(w.st.delta[1]) /\ ~AtLeastOne(w.st.delta[1]))
        => w.st.reached = state.reached

C6_ReachedHysteresis == ForEachStep(C6_Step)

\* reached survives a sample inside the hysteresis band
C6_Witness ==
    /\ state.orientation = Horizontal
    /\ state.reached
    /\ AtLeastFloor(state.delta[1])
    /\ ~AtLeastOne(state.delta[1])

-----------------------------------------------------------------------------
(* C7: a gesture whose resolver returned no completion action is Vertical   *)
(* from its first update on; its later updates do not make it Horizontal,   *)
(* do not set reached, start no reach animation, emit no update             *)
(* notification and queue no action.                                        *)

C7_Step(w, x) ==
    /\ (w.fx.resolver = 1 /\ ~HasAction(w.st)) => w.st.orientation = Vertical
    /\ (IsSample(w) /\ state.started /\ ~HasAction(state))
        => /\ w.st.orientation = Vertical
           /\ state.reached \/ ~w.st.reached
           /\ w.fx.reachStart = 0
           /\ w.fx.upd = <<>>
           /\ w.fx.sched = 0
           /\ w.pq = postponed

C7_NoActionStaysVertical ==
    /\ ForEachStep(C7_Step)
    /\ (state.started /\ ~HasAction(state)) => state.orientation = Vertical

\* a gesture that started where there is nothing to swipe
C7_Witness ==
    /\ state.started
    /\ ~HasAction(state)
    /\ state.orientation = Vertical
    /\ ~scroll.disabled

-----------------------------------------------------------------------------
(* C8: generateFinishByTop is called once by the update that starts a       *)
(* gesture (no gesture in progress, or one of the other source type) and by *)
(* no other call: not by a later update of that gesture, a cancel, a scroll *)
(* notification or an animation tick.                                       *)

FromTouch(w) == w.fx.ev \in TouchTypes

FromWheel(w) == w.fx.ev \in WheelPhases

C8_Step(w, x) ==
    w.fx.resolver =
        (IF /\ w.fx.fed = 1
            /\ \/ ~state.started
               \/ FromTouch(w) /\ ~state.touch
               \/ FromWheel(w) /\ state.touch
         THEN 1 ELSE 0)

-----------------------------------------------------------------------------
(* C9: every update notification, from a sample or from a tick of either    *)
(* animation, carries a ratio within [0, 1.5] and the translation           *)
(* round(-ratio * threshold), which lies within [-1.5 * threshold, 0].      *)

\* t is the integer nearest to -(r / RatioDen) * threshold, halves away from zero
IsRoundedTranslation(t, r) ==
    /\ 2 * Abs(t * RatioDen + r * threshold) <= RatioDen
    /\ 2 * Abs(t * RatioDen + r * threshold) = RatioDen => t * RatioDen < -(r * threshold)

C9_Step(w, x) ==
    \A k \in 1..Len(w.fx.upd) :
        LET u == w.fx.upd[k]
        IN  /\ 0 <= u.ratio
            /\ 2 * u.ratio <= 3 * RatioDen
            /\ IsRoundedTranslation(u.translation, u.ratio)
            /\ -3 * threshold <= 2 * u.translation
            /\ u.translation <= 0

C9_UpdateClamped == ForEachStep(C9_Step)

\* a sample beyond 1.5 times the threshold was shown as 1.5
C9_Witness ==
    /\ state.orientation = Horizontal
    /\ 2 * state.delta[1] > 3 * threshold
    /\ 2 * obs.shown = 3 * RatioDen

-----------------------------------------------------------------------------
(* C10 *)

\* a ScrollMomentum wheel event during a wheel gesture cancels it at once
MomentumCancels ==
    (postponed = <<>> /\ state.started /\ ~state.touch) =>
        \A i \in WheelInputs :
            i[1] = "ScrollMomentum" =>
                LET w == WheelW(i[1], i[2], i[3], state.cursorTop, state.finishByTopData)
                IN  /\ w.fx.end = 1
                    /\ IsIdle(w.st)
                    /\ w.fx.upd = <<>>
                    /\ state.orientation = Horizontal =>
                           /\ w.st.animationEnd.running
                           /\ w.st.animationEnd.from * threshold = state.delta[1] * RatioDen
                           /\ obs.shown \in {0, Clamp(w.st.animationEnd.from, 0, (3 * RatioDen) \div 2)}

\* every tick of an end animation that a momentum event started shows at most `most`
TicksShowAtMost(most) ==
    (postponed = <<>> /\ state.animationEnd.running /\ obs.cap # NoCap) =>
        \A p \in EndSteps :
            LET w == EndTickW(p)
            IN  /\ Len(w.fx.upd) = 1
                /\ w.fx.upd[1].ratio <= most

(* C10, as claimed: the momentum event cancels the wheel gesture in that    *)
(* step, and every update notification made afterwards for the gesture has  *)
(* a ratio no greater than the last one the gesture made before the event.  *)
C10_AsClaimed == MomentumCancels /\ TicksShowAtMost(obs.cap)

(* C10, amended: the momentum event cancels the wheel gesture in that step, *)
(* and every update notification made afterwards for the gesture has a      *)
(* ratio no greater than the live ratio delta.x / threshold at the event,   *)
(* clamped to [0, 1.5].  That is the ratio the gesture showed last, unless  *)
(* it had shown none.                                                       *)
C10_MomentumCancelsNoOvershoot ==
    /\ MomentumCancels
    /\ TicksShowAtMost(Clamp(state.animationEnd.from, 0, (3 * RatioDen) \div 2))

\* the end animation of a wheel swipe cut by momentum has ticked
C10_Witness ==
    /\ obs.cap # NoCap
    /\ state.animationEnd.running
    /\ state.animationEnd.p >= 1
    /\ state.animationEnd.from > 0
    /\ IsIdle(state)

-----------------------------------------------------------------------------
(* C11 *)

\* the update comes from the source type of the gesture in progress
SameSource(w) == state.started /\ (state.touch <=> FromTouch(w))

(* C11, as claimed: every call of updateWith, the one that seeds the        *)
(* gesture and the one that decides the orientation included, emits one     *)
(* update notification.                                                     *)
C11_StepAsClaimed(w, x) == w.fx.fed = 1 => Len(w.fx.upd) = 1

C11_AsClaimed == ForEachStep(C11_StepAsClaimed)

(* C11, amended: a call of updateWith emits one update notification, with   *)
(* the ratio of its delta, when it continues a gesture of its own source    *)
(* type whose orientation is already Horizontal, and none otherwise: not    *)
(* when it seeds a gesture, not when it finds the orientation Undetermined  *)
(* (even if it decides Horizontal), not when the orientation is Vertical.   *)
C11_Step(w, x) ==
    w.fx.fed = 1 =>
        IF SameSource(w) /\ state.orientation = Horizontal
        THEN /\ Len(w.fx.upd) = 1
             /\ w.fx.upd[1].ratio = Clamp(Ratio(w.st.delta[1]), 0, (3 * RatioDen) \div 2)
        ELSE w.fx.upd = <<>>

C11_UpdateOnHorizontalSamples == ForEachStep(C11_Step)

\* a horizontal sample below the threshold has been shown
C11_Witness ==
    /\ state.started
    /\ state.orientation = Horizontal
    /\ ~state.reached
    /\ obs.shown > 0
    /\ obs.shown = Ratio(state.delta[1])

-----------------------------------------------------------------------------
(* C12 *)

\* the end animation the call has started runs from delta.x / threshold of x
StartsFrom(w, x) ==
    /\ w.st.animationEnd.running
    /\ w.st.animationEnd.p = 0
    /\ w.st.animationEnd.from * threshold = x * RatioDen

\* the last tick of a running end animation shows 0 and ends the animation
EndsAtZero ==
    (postponed = <<>> /\ state.animationEnd.running) =>
        /\ EndTickW(Sub).fx.upd[1].ratio = 0
        /\ ~EndTickW(Sub).st.animationEnd.running

(* C12, as claimed: every processEnd that ends a started gesture, whatever  *)
(* its orientation, starts the end animation once, from the final ratio to  *)
(* 0; a processEnd that runs in Idle does not start it.                     *)
C12_StepAsClaimed(w, x) ==
    /\ w.fx.endStart = (IF w.fx.end > 0 /\ state.started THEN 1 ELSE 0)
    /\ w.fx.endStart = 1 => StartsFrom(w, x)

C12_AsClaimed == ForEachStep(C12_StepAsClaimed) /\ EndsAtZero

(* C12, amended: a processEnd starts the end animation, once, from the      *)
(* final ratio to 0, exactly when it runs while the orientation is          *)
(* Horizontal; a processEnd that ends a Vertical or Undetermined gesture,   *)
(* or runs in Idle, does not start it.                                      *)
C12_Step(w, x) ==
    /\ w.fx.endStart = (IF w.fx.end > 0 /\ state.orientation = Horizontal THEN 1 ELSE 0)
    /\ w.fx.endStart = 1 => StartsFrom(w, x)
    /\ w.fx.endStart = 0 => w.st.animationEnd = state.animationEnd \/ w.fx.ev = "endTick"

C12_EndAnimationAfterHorizontal == ForEachStep(C12_Step) /\ EndsAtZero

\* a swipe to the other side has ended: the end animation starts below 0
C12_Witness ==
    /\ IsIdle(state)
    /\ state.animationEnd.running
    /\ state.animationEnd.p = 0
    /\ state.animationEnd.from < 0

-----------------------------------------------------------------------------
(* C13 *)

(* C13, as claimed: a call that does not run processEnd leaves an           *)
(* orientation of Horizontal or Vertical as it is.                          *)
C13_StepAsClaimed(w, x) ==
    (state.orientation # None /\ w.fx.end = 0) => w.st.orientation = state.orientation

C13_AsClaimed == ForEachStep(C13_StepAsClaimed)

(* C13, amended: a call that does not run processEnd leaves an orientation  *)
(* of Horizontal or Vertical as it is, but for one case: an update of the   *)
(* other source type whose resolver returns no completion action turns      *)
(* Horizontal into Vertical.  Nothing turns Vertical into Horizontal or     *)
(* either into Undetermined.                                                *)
C13_Step(w, x) ==
    (state.orientation # None /\ w.fx.end = 0) =>
        IF /\ state.orientation = Horizontal
           /\ w.fx.fed = 1
           /\ ~SameSource(w)
           /\ ~HasAction(w.st)
        THEN w.st.orientation = Vertical
        ELSE w.st.orientation = state.orientation

C13_OrientationKept == ForEachStep(C13_Step)

\* a wheel update has taken over a horizontal touch swipe past the threshold
\* at a place without a completion action
C13_Witness ==
    /\ state.started
    /\ state.orientation = Vertical
    /\ ~HasAction(state)
    /\ state.reached

-----------------------------------------------------------------------------
(* C14: an update of the other source type than the gesture in progress     *)
(* resets the gesture as a new one: delta is zeroed, startAt and cursorTop  *)
(* are seeded again, the resolver is asked again, and after the update the  *)
(* orientation is Undetermined (Vertical without a completion action),      *)
(* reached is false and scrolling is enabled.                               *)

\* w is the outcome of an update that seeds a new gesture at `position`
ResetAsNew(w, position, cursor, finish) ==
    /\ w.st.started
    /\ w.st.delta = <<0, 0>>
    /\ w.st.startAt = position
    /\ w.st.cursorTop = cursor
    /\ w.st.finishByTopData = finish
    /\ w.fx.resolver = 1
    /\ w.st.orientation = (IF finish.callback = NoCallback THEN Vertical ELSE None)
    /\ ~w.st.reached
    /\ ~w.sc.disabled

C14_SourceSwitchResets ==
    (postponed = <<>> /\ state.started) =>
        /\ ~state.touch =>
               \A i \in TouchInputs, c \in CursorTops, f \in FinishResults :
                   LET w == TouchW(i[1], i[2], i[3], c, f)
                   IN  w.fx.fed = 1 => (w.st.touch /\ ResetAsNew(w, i[3][1].pos, c, f))
        /\ state.touch =>
               \A i \in WheelInputs, c \in CursorTops, f \in FinishResults :
                   LET w == WheelW(i[1], i[2], i[3], c, f)
                   IN  w.fx.fed = 1 => (~w.st.touch /\ ResetAsNew(w, <<0, 0>>, c, f))

-----------------------------------------------------------------------------
(* C15 *)

(* C15, as claimed: a pointer leave handled while a gesture is started,     *)
(* also one whose orientation is still Undetermined, leaves the state Idle. *)
C15_AsClaimed ==
    (postponed = <<>> /\ state.started) => (~LeaveW.st.started /\ IsIdle(LeaveW.st))

(* C15, amended: a pointer leave handled while the orientation of the       *)
(* gesture is Horizontal or Vertical runs processEnd and leaves the state   *)
(* Idle; handled while the orientation is Undetermined it changes nothing:  *)
(* a started gesture stays started.                                         *)
C15_LeaveCancelsDecided ==
    postponed = <<>> =>
        IF state.orientation # None
        THEN /\ LeaveW.fx.end = 1
             /\ ~LeaveW.st.started
             /\ IsIdle(LeaveW.st)
        ELSE /\ LeaveW.fx.end = 0
             /\ LeaveW.st = state
             /\ LeaveW.sc = scroll
             /\ LeaveW.pq = postponed

\* a vertical gesture that a pointer leave is about to cancel
C15_Witness ==
    /\ postponed = <<>>
    /\ state.started
    /\ state.orientation = Vertical
    /\ HasAction(state)
    /\ LeaveW.fx.end = 1
    /\ IsIdle(LeaveW.st)

-----------------------------------------------------------------------------
(* C16 *)

\* a touch update whose only reason to cancel is its number of touch points
BadTouchCount(type, touchscreen, touches) ==
    /\ type \in {"TouchBegin", "TouchUpdate"}
    /\ ~Released(touches, 0)
    /\ ~Released(touches, 1)
    /\ IF touchscreen THEN Len(touches) # 1 ELSE Len(touches) \notin {1, 2}

\* P(w, x) for the outcome w of every cancel by an anomalous condition that
\* the filter does not skip; x is the delta.x its processEnd works with
ForEachAnomaly(P(_, _)) ==
    postponed = <<>> =>
        /\ \A y \in MouseYs :
               (state.orientation # None /\ Abs(y - state.cursorTop) > kStartDragDistance)
                   => P(MouseMoveW(y), state.delta[1])
        /\ \A i \in TouchInputs, s \in SeedInputs(TRUE) :
               (BadTouchCount(i[1], i[2], i[3]) /\ (isMac \/ i[2]))
                   => P(TouchW(i[1], i[2], i[3], s[1], s[2]), FinalX(i[3]))
        /\ \A i \in WheelInputs, s \in SeedInputs(FALSE) :
               (WheelCancelKind(i[1], i[2]) /\ ~isMac /\ i[1] # "NoScrollPhase")
                   => P(WheelW(i[1], i[2], i[3], s[1], s[2]), state.delta[1])

(* C16, as claimed: such a cancel leaves the state Idle with scrolling and  *)
(* touch acceptance on, queues no completion action and emits no update     *)
(* notification, in every state.                                            *)
C16_StepAsClaimed(w, x) ==
    /\ w.fx.end = 1
    /\ Restored(w)
    /\ w.fx.sched = 0
    /\ w.pq = postponed
    /\ w.fx.upd = <<>>

C16_AsClaimed == ForEachAnomaly(C16_StepAsClaimed)

(* C16, amended: such a cancel leaves the state Idle with scrolling and     *)
(* touch acceptance on and emits no update notification itself; when the    *)
(* orientation is Horizontal it also stops the reach animation, starts the  *)
(* end animation and, if the final ratio is >= 1 and there is a completion  *)
(* action, queues that action once, exactly as a release does.              *)
C16_Step(w, x) ==
    /\ w.fx.end = 1
    /\ Restored(w)
    /\ w.fx.upd = <<>>
    /\ w.fx.ran = 0
    /\ w.fx.sched =
          (IF state.orientation = Horizontal /\ x >= threshold /\ HasAction(state)
           THEN 1 ELSE 0)
    /\ w.fx.sched = 1 => w.pq = Append(postponed, state.finishByTopData.callback)
    /\ w.fx.sched = 0 => w.pq = postponed
    /\ w.fx.endStart = (IF state.orientation = Horizontal THEN 1 ELSE 0)
    /\ state.orientation = Horizontal => ~w.st.animationReach.running

C16_AnomalyEndsLikeRelease == ForEachAnomaly(C16_Step)

\* a momentum event has cut a wheel swipe past the threshold: its action waits
C16_Witness ==
    /\ postponed # <<>>
    /\ obs.cap # NoCap
    /\ IsIdle(state)

-----------------------------------------------------------------------------
(* C17 *)

\* |delta.x| - |delta.y| lies within [-1, 1]
Undecided(d) == Abs(Abs(d[1]) - Abs(d[2])) <= 1

\* P(w) for the outcome w of every update of the gesture in progress that
\* finds the orientation Undetermined and leaves it so
ForEachUndecided(P(_)) ==
    (postponed = <<>> /\ state.started /\ state.orientation = None) =>
        /\ state.touch =>
               \A i \in TouchInputs :
                   LET w == TouchW(i[1], i[2], i[3], state.cursorTop, state.finishByTopData)
                   IN  (w.fx.fed = 1 /\ Undecided(Sub2(state.startAt, i[3][1].pos))) => P(w)
        /\ ~state.touch =>
               \A i \in WheelInputs :
                   LET w == WheelW(i[1], i[2], i[3], state.cursorTop, state.finishByTopData)
                   IN  (w.fx.fed = 1 /\ Undecided(Sub2(state.delta, i[3]))) => P(w)

(* C17, as claimed: such an update makes no disableScroll or                *)
(* touch-acceptance call and leaves both flags of the collaborator as they  *)
(* were.                                                                    *)
C17_StepAsClaimed(w) ==
    /\ w.st.orientation = None
    /\ w.fx.orient = 0
    /\ w.sc = scroll

C17_AsClaimed == ForEachUndecided(C17_StepAsClaimed)

(* C17, amended: such an update calls disableScroll(false) and sets touch   *)
(* acceptance on, once each: afterwards scrolling is enabled and touch      *)
(* acceptance is on, whatever it was before.                                *)
C17_Step(w) ==
    /\ w.st.orientation = None
    /\ w.fx.orient = 1
    /\ ~w.sc.disabled
    /\ w.sc.acceptTouch

C17_UndecidedEnablesScroll == ForEachUndecided(C17_Step)

\* an undecided sample has been processed in the first gesture after setup
C17_Witness ==
    /\ state.started
    /\ state.orientation = None
    /\ state.delta = <<1, 0>>
    /\ scroll.acceptTouch
    /\ ~scroll.disabled
    /\ ~state.animationEnd.running

-----------------------------------------------------------------------------
(* C18: scrolling of the scroll collaborator is disabled exactly while the  *)
(* orientation is Horizontal, and the viewport's touch acceptance is off    *)
(* only then; scrolling is never disabled in Idle, Undetermined or Vertical *)
(* states.                                                                  *)

C18_ScrollDisabledIffHorizontal ==
    /\ scroll.disabled <=> (state.orientation = Horizontal)
    /\ state.orientation = Horizontal => ~scroll.acceptTouch

\* a horizontal wheel swipe holds the scroll area
C18_Witness ==
    /\ state.orientation = Horizontal
    /\ ~state.touch
    /\ scroll.disabled
    /\ ~scroll.acceptTouch

-----------------------------------------------------------------------------
(* C19: whenever the orientation is Horizontal, the gesture is started and  *)
(* the stored finishByTopData has a completion action.                      *)

C19_HorizontalHasAction ==
    state.orientation = Horizontal => (state.started /\ HasAction(state))

\* a horizontal swipe that an update of the other source type has taken over
C19_Witness ==
    /\ state.orientation = Horizontal
    /\ state.started
    /\ HasAction(state)
    /\ state.delta = <<0, 0>>
    /\ state.reached
    /\ ~state.touch

-----------------------------------------------------------------------------
(* C20 *)

BothRunning(st) == st.animationReach.running /\ st.animationEnd.running

(* C20, as claimed: the reach animation and the end animation never run at  *)
(* the same time.                                                           *)
C20_AsClaimed == ~BothRunning(state)

(* C20, amended: a processEnd that runs while the orientation is Horizontal *)
(* leaves the reach animation stopped and the end animation at its start;   *)
(* a start of the reach animation leaves the end animation as it is, and    *)
(* the two come to run at the same time only so: by a sample of a new       *)
(* gesture that reaches the threshold while the end animation of the        *)
(* previous gesture is still running.                                       *)
C20_Step(w, x) ==
    /\ (w.fx.end > 0 /\ state.orientation = Horizontal)
        => /\ ~w.st.animationReach.running
           /\ w.st.animationEnd.running
           /\ w.st.animationEnd.p = 0
    /\ w.fx.reachStart = 1
        => /\ w.st.animationReach.running
           /\ w.st.animationReach.p = 0
           /\ w.st.animationEnd = state.animationEnd
    /\ (BothRunning(w.st) /\ ~BothRunning(state))
        => /\ w.fx.reachStart = 1
           /\ state.animationEnd.running
           /\ IsSample(w)

C20_OverlapOnlyByNewReach == ForEachStep(C20_Step)

\* a new swipe has reached the threshold before the last one has settled
C20_Witness ==
    /\ BothRunning(state)
    /\ state.orientation = Horizontal
    /\ state.reached
    /\ state.animationReach.p = 0

=============================================================================
